---- MODULE Spec2Model ----
(***************************************************************************)
(* A model of src/app.py: the three-stage news "web story" pipeline.       *)
(*                                                                         *)
(*   stage 1 (tab1)  classification, outline and narration calls,          *)
(*                   restructure_slide_output, first interchange file      *)
(*   stage 2 (tab2)  synthesize_and_upload: TTS call, temp file, upload    *)
(*   stage 3 (tab3)  AMP assembly from test.html and the TTS result        *)
(*                                                                         *)
(* Strings are sequences of tokens.  A token is one character ("a", " ",   *)
(* "1") or a fixed chunk of text that the code only ever handles whole     *)
(* ("slide", "paragraph1", the placeholder, the opening tag).  A Python    *)
(* dict (and a JSON object read with json.load) is a sequence of           *)
(* <<key, value>> pairs with distinct keys, in insertion order.            *)
(***************************************************************************)
EXTENDS Integers, Sequences, FiniteSets, TLC

VARIABLES
    \* ---- stage 1: detect_category_and_subcategory and its caller
    cls_pc,          \* "idle", "classified", "continued", "failed"
    cls_response,    \* the LLM's classification response (structured, see ClsResponses)
    cls_result,      \* what detect_category_and_subcategory returned
    \* ---- stage 1: title_script_generator
    gen_pc,          \* "idle", "narrating", "returned", "failed"
    article_text,    \* the article text
    gen_response,    \* the LLM's outline response
    slides_raw,      \* the parsed outline
    slides,          \* the slide list being built / returned
    llm_calls,       \* log of LLM calls made by title_script_generator
    narrations,      \* log of the raw narration responses
    \* ---- stage 1 -> 2 interchange
    structured_file, \* the StructuredNarration JSON written by tab1 (or NoFile)
    story,           \* the slide list restructure_slide_output was applied to
    \* ---- stage 2: tab2 and synthesize_and_upload
    pc2,             \* position of tab2 / synthesize_and_upload
    uploaded_file,   \* the file given to tab2's uploader
    paragraphs,      \* the mapping loaded from the uploaded JSON
    voice,           \* the selected voice
    index,           \* synthesize_and_upload's slide index
    pos,             \* position of the for loop in paragraphs.values()
    result,          \* synthesize_and_upload's result mapping
    response,        \* the TTS response content of the current iteration
    local_path,      \* the temp file of the current iteration
    temp_dir,        \* files that exist in temp/
    bucket,          \* objects in the S3 bucket: set of <<s3_key, content>>
    tts_calls,       \* log of the TTS requests issued
    upload_calls,    \* log of the upload requests issued (by paragraph position)
    uuid_count,      \* number of uuid4() values drawn so far
    tts_output_file, \* the TTSResult JSON written by tab2 (or NoFile)
    ui2,             \* what tab2 shows: messages and download buttons
    unhandled2,      \* the exception that left tab2 unhandled, or "none"
    \* ---- stage 3: tab3
    pc3,             \* "idle", "done"
    template_html,   \* content of test.html, or NoFile when it does not exist
    output_data,     \* the uploaded TTSResult-shaped JSON
    final_html,      \* the assembled document, or NoFile
    ui3,             \* what tab3 shows
    unhandled3       \* the exception that left tab3 unhandled, or "none"

cls_vars == <<cls_pc, cls_response, cls_result>>
gen_vars == <<gen_pc, article_text, gen_response, slides_raw, slides, llm_calls, narrations>>
tab1_vars == <<structured_file, story>>
tab2_vars == <<pc2, uploaded_file, paragraphs, voice, index, pos, result, response, local_path,
               temp_dir, bucket, tts_calls, upload_calls, uuid_count,
               tts_output_file, ui2, unhandled2>>
tab3_vars == <<pc3, template_html, output_data, final_html, ui3, unhandled3>>
vars == <<cls_vars, gen_vars, tab1_vars, tab2_vars, tab3_vars>>

(***************************************************************************)
(* Bounds of the model.                                                    *)
(***************************************************************************)
MaxParas == 3        \* paragraphs in an uploaded StructuredNarration file
MaxOutline == 2      \* entries of an outline response
MaxStory == 2        \* slides of a story sent through all three stages
MaxAmpSlides == 2    \* entries of an uploaded TTSResult file

\* a file that does not exist / was not written
NoFile == [kind |-> "none"]

\* an uploaded file that is not well-formed JSON
Malformed == [kind |-> "malformed"]

\* a file holding the JSON object d
JsonFile(d) == [kind |-> "object", entries |-> d]

None == <<"<None>">>

(***************************************************************************)
(* Strings: helpers.                                                       *)
(***************************************************************************)
RECURSIVE Concat(_)
\* "".join(parts)
Concat(parts) ==
    IF parts = <<>> THEN <<>> ELSE Head(parts) \o Concat(Tail(parts))

\* s.count(tok), for a token tok
Count(s, tok) == Cardinality({i \in 1..Len(s) : s[i] = tok})

\* str.replace(old, new) for a one-token old and a string new
RECURSIVE Replace(_, _, _)
Replace(s, old, new) ==
    IF s = <<>> THEN <<>>
    ELSE (IF Head(s) = old THEN new ELSE <<Head(s)>>) \o Replace(Tail(s), old, new)

\* str.strip(chars): drops leading and trailing tokens that are in chars
RECURSIVE LStrip(_, _)
LStrip(s, chars) ==
    IF s # <<>> /\ Head(s) \in chars THEN LStrip(Tail(s), chars) ELSE s

RECURSIVE RStrip(_, _)
RStrip(s, chars) ==
    IF s # <<>> /\ s[Len(s)] \in chars THEN RStrip(SubSeq(s, 1, Len(s) - 1), chars) ELSE s

StripChars(s, chars) == RStrip(LStrip(s, chars), chars)

Whitespace == {" ", "\n"}

\* str.strip()
Strip(s) == StripChars(s, Whitespace)

DigitChars == <<"0", "1", "2", "3", "4", "5", "6", "7", "8", "9">>

\* f"{n}" for an int n >= 0
RECURSIVE Str(_)
Str(n) ==
    IF n < 10 THEN <<DigitChars[n + 1]>>
    ELSE Str(n \div 10) \o <<DigitChars[(n % 10) + 1]>>

DigitValue(c) == CHOOSE d \in 0..9 : DigitChars[d + 1] = c

IsDigits(s) == s # <<>> /\ \A i \in 1..Len(s) : \E d \in 1..10 : DigitChars[d] = s[i]

\* int(s) for a string of decimal digits
RECURSIVE Int_(_)
Int_(s) ==
    IF Len(s) = 1 THEN DigitValue(s[1])
    ELSE 10 * Int_(SubSeq(s, 1, Len(s) - 1)) + DigitValue(s[Len(s)])

(***************************************************************************)
(* Dicts: helpers.                                                         *)
(***************************************************************************)
Keys(d) == [i \in 1..Len(d) |-> d[i][1]]
KeySet(d) == {d[i][1] : i \in 1..Len(d)}
HasKey(d, k) == k \in KeySet(d)
Get(d, k) == d[CHOOSE i \in 1..Len(d) : d[i][1] = k][2]

\* d[k] = v
Put(d, k, v) ==
    IF HasKey(d, k)
    THEN [i \in 1..Len(d) |-> IF d[i][1] = k THEN <<k, v>> ELSE d[i]]
    ELSE Append(d, <<k, v>>)

(***************************************************************************)
(* Stage 2: tab2 and synthesize_and_upload.                                *)
(***************************************************************************)
voice_options == {"alloy", "echo", "fable", "onyx", "nova", "shimmer"}

\* faulty variant of StartIndex: the numbering starts at 1
StartIndexOne == 2 - 1

\* index = 2
StartIndex == 2

\* faulty variant of FirstPos: the first paragraph is skipped
FirstPosSkipIntro == 1 + 1

\* for text in paragraphs.values(): the position of the first value taken
FirstPos == 1

\* slide_key = f"slide{index}"
slide_key(i) == <<"slide">> \o Str(i)

\* faulty variant of paragraph_key: the input's number is kept
paragraph_key_shifted(i) == <<"s">> \o Str(i - 1) \o <<"paragraph1">>

\* paragraph_key = f"s{index}paragraph1"
paragraph_key(i) == <<"s">> \o Str(i) \o <<"paragraph1">>

\* audio_key = f"audio_url{index}" (line 240)
tts_audio_key(i) == <<"audio_url">> \o Str(i)

\* the key "voice"
VoiceKey == <<"voice">>

\* f"tts_{uuid.uuid4().hex}.mp3"; the u-th uuid4() value is the token Str(u):
\* uuid4 values are taken to be pairwise distinct
Filename(u) == <<"tts_", "uuid">> \o Str(u) \o <<".mp3">>

\* f"{S3_PREFIX}{filename}"
S3Key(filename) == <<"S3_PREFIX">> \o filename

\* f"{CDN_BASE}{s3_key}"
CdnUrl(s3_key) == <<"CDN_BASE">> \o s3_key

\* the audio bytes the TTS endpoint returns for a request
TtsAudio(text, v) == <<"mpeg", text, v>>

\* the JSON body of the TTS request
TtsRequest(text, v) == [model |-> "tts-1-hd", input |-> text, voice |-> v]

Tab2Init ==
    /\ pc2 = "await_upload"
    /\ uploaded_file = NoFile
    /\ paragraphs = <<>>
    /\ voice = "alloy"
    /\ index = 0
    /\ pos = 0
    /\ result = <<>>
    /\ response = None
    /\ local_path = None
    /\ temp_dir = {}
    /\ bucket = {}
    /\ tts_calls = <<>>
    /\ upload_calls = <<>>
    /\ uuid_count = 0
    /\ tts_output_file = NoFile
    /\ ui2 = {}
    /\ unhandled2 = "none"

\* tab2, lines 308-313: a file is uploaded and a voice chosen; json.load is
\* not inside any try
Tab2Upload(file, v) ==
    /\ pc2 = "await_upload"
    /\ uploaded_file' = file
    /\ voice' = v
    /\ IF file.kind = "malformed"
       THEN /\ pc2' = "crashed"
            /\ unhandled2' = "JSONDecodeError"
            /\ UNCHANGED <<paragraphs, ui2>>
       ELSE /\ pc2' = "await_click"
            /\ paragraphs' = file.entries
            /\ ui2' = ui2 \cup {"loaded"}
            /\ UNCHANGED unhandled2
    /\ UNCHANGED <<index, pos, result, response, local_path, temp_dir, bucket,
                   tts_calls, upload_calls, uuid_count, tts_output_file>>

\* the button is pressed: synthesize_and_upload starts (lines 207-210)
Tab2Click ==
    /\ pc2 = "await_click"
    /\ pc2' = "loop_top"
    /\ result' = <<>>
    /\ index' = StartIndex
    /\ pos' = FirstPos
    /\ UNCHANGED <<uploaded_file, paragraphs, voice, response, local_path, temp_dir, bucket,
                   tts_calls, upload_calls, uuid_count, tts_output_file, ui2,
                   unhandled2>>

\* one iteration starts: requests.post and raise_for_status (lines 211-226)
TtsPost(ok) ==
    /\ pc2 = "loop_top"
    /\ pos <= Len(paragraphs)
    /\ tts_calls' = Append(tts_calls, TtsRequest(paragraphs[pos][2], voice))
    /\ IF ok
       THEN /\ pc2' = "tts_ok"
            /\ response' = TtsAudio(paragraphs[pos][2], voice)
            /\ UNCHANGED unhandled2
       ELSE /\ pc2' = "aborted"
            /\ unhandled2' = "HTTPError"
            /\ UNCHANGED response
    /\ UNCHANGED <<uploaded_file, paragraphs, voice, index, pos, result, local_path, temp_dir,
                   bucket, upload_calls, uuid_count, tts_output_file, ui2>>

\* the temp file is written (lines 228-232); open or write may fail
WriteTemp(outcome) ==
    /\ pc2 = "tts_ok"
    /\ uuid_count' = uuid_count + 1
    /\ local_path' = <<"temp/">> \o Filename(uuid_count + 1)
    /\ temp_dir' = IF outcome = "open_fails" THEN temp_dir
                   ELSE temp_dir \cup {Filename(uuid_count + 1)}
    /\ IF outcome = "ok"
       THEN /\ pc2' = "written"
            /\ UNCHANGED unhandled2
       ELSE /\ pc2' = "aborted"
            /\ unhandled2' = "OSError"
    /\ UNCHANGED <<uploaded_file, paragraphs, voice, index, pos, result, response, bucket,
                   tts_calls, upload_calls, tts_output_file, ui2>>

\* s3.upload_file, then the result entry, index += 1 and os.remove
\* (lines 234-249); a failed upload leaves the function at line 235
Upload(ok) ==
    /\ pc2 = "written"
    /\ upload_calls' = Append(upload_calls, pos)
    /\ LET filename == Tail(local_path)
           s3_key == S3Key(filename)
           cdn_url == CdnUrl(s3_key)
       IN IF ok
          THEN /\ bucket' = bucket \cup {<<s3_key, response>>}
               /\ result' = Put(result, slide_key(index),
                                <<<<paragraph_key(index), paragraphs[pos][2]>>,
                                  <<tts_audio_key(index), cdn_url>>,
                                  <<VoiceKey, voice>>>>)
               /\ index' = index + 1
               /\ pos' = pos + 1
               /\ temp_dir' = temp_dir \ {filename}
               /\ pc2' = "loop_top"
               /\ UNCHANGED unhandled2
          ELSE /\ pc2' = "aborted"
               /\ unhandled2' = "S3UploadFailedError"
               /\ UNCHANGED <<bucket, result, index, pos, temp_dir>>
    /\ UNCHANGED <<uploaded_file, paragraphs, voice, response, local_path, tts_calls,
                   uuid_count, tts_output_file, ui2>>

\* the loop is exhausted: return result (line 251), then tab2 writes the
\* TTSResult file and offers it for download (lines 318-331)
Tab2Return ==
    /\ pc2 = "loop_top"
    /\ pos > Len(paragraphs)
    /\ pc2' = "done"
    /\ tts_output_file' = JsonFile(result)
    /\ ui2' = ui2 \cup {"done", "download"}
    /\ UNCHANGED <<uploaded_file, paragraphs, voice, index, pos, result, response, local_path,
                   temp_dir, bucket, tts_calls, upload_calls, uuid_count,
                   unhandled2>>

(***************************************************************************)
(* Stage 1: restructure_slide_output.                                      *)
(***************************************************************************)
\* slide.get(k, default)
GetOr(d, k, default) == IF HasKey(d, k) THEN Get(d, k) ELSE default

\* key = f"s{idx + 1}paragraph1", for enumerate's idx = 0, 1, ...
structured_key(idx) == <<"s">> \o Str(idx + 1) \o <<"paragraph1">>

\* restructure_slide_output(final_output), with final_output["slides"] = slide_list
restructure_slide_output(slide_list) ==
    [n \in 1..Len(slide_list) |->
        <<structured_key(n - 1), Strip(GetOr(slide_list[n], "script", <<>>))>>]

Tab1Init ==
    /\ structured_file = NoFile
    /\ story = <<>>

\* tab1, lines 287-302: the slide list is restructured and written to the
\* first interchange file
Tab1Restructure(slide_list) ==
    /\ structured_file = NoFile
    /\ story' = slide_list
    /\ structured_file' = JsonFile(restructure_slide_output(slide_list))

(***************************************************************************)
(* Stage 3: tab3, the AMP assembly.                                        *)
(***************************************************************************)
Placeholder == "<!--INSERT_SLIDES_HERE-->"
PageTag == "<amp-story-page"

\* generate_slide(paragraph, audio_url): the fixed markup is cut into the
\* chunks around the two interpolated values
generate_slide(paragraph, audio_url) ==
    <<"\n", PageTag, " id=...><amp-story-animation>...<source type=\"audio/mpeg\" src=\"">>
    \o audio_url
    \o <<"\">...<h3 ...><span><span class=\"_14af73e\">">>
    \o paragraph
    \o <<"</span></span></h3>...", "</amp-story-page>", "\n">>

\* key.replace("slide", "")
SlideNum(key) == Replace(key, "slide", <<>>)

\* the sort key: int(x.replace("slide", ""))
SortKey(key) == Int_(SlideNum(key))

\* inserts key k into the sorted list ks, behind the keys that do not sort
\* after it (sorted() is stable)
RECURSIVE InsertKey(_, _)
InsertKey(ks, k) ==
    IF ks = <<>> THEN <<k>>
    ELSE IF SortKey(k) < SortKey(Head(ks)) THEN <<k>> \o ks
    ELSE <<Head(ks)>> \o InsertKey(Tail(ks), k)

RECURSIVE SortKeys(_)
SortKeys(ks) ==
    IF ks = <<>> THEN <<>>
    ELSE InsertKey(SortKeys(SubSeq(ks, 1, Len(ks) - 1)), ks[Len(ks)])

\* faulty variant of SortedSlideKeys: the keys in the order of the file
UnsortedSlideKeys(d) == Keys(d)

\* sorted(output_data.keys(), key=lambda x: int(x.replace("slide", "")))
SortedSlideKeys(d) == SortKeys(Keys(d))

\* f"s{slide_num}paragraph1"
para_key(slide_num) == <<"s">> \o slide_num \o <<"paragraph1">>

\* faulty variant of amp_audio_key: another field name
amp_audio_key_no_url(slide_num) == <<"audio">> \o slide_num

\* audio_key = f"audio_url{slide_num}" (line 426)
amp_audio_key(slide_num) == <<"audio_url">> \o slide_num

\* the right single quotation mark U+2019, as a token
RightQuote == "U+2019"

\* data[para_key].replace(U+2019, "'").replace('"', '&quot;')
NormaliseParagraph(p) == Replace(Replace(p, RightQuote, <<"'">>), "\"", <<"&quot;">>)

\* the body of the for loop for one key: the fragment it appends
SlideFragment(d, key) ==
    LET slide_num == SlideNum(key)
        data == Get(d, key)
    IN IF HasKey(data, para_key(slide_num)) /\ HasKey(data, amp_audio_key(slide_num))
       THEN generate_slide(NormaliseParagraph(Get(data, para_key(slide_num))),
                           Get(data, amp_audio_key(slide_num)))
       ELSE <<>>

\* all_slides after the loop
AllSlides(d) ==
    LET ks == SortedSlideKeys(d)
    IN Concat([i \in 1..Len(ks) |-> SlideFragment(d, ks[i])])

\* int() raises ValueError for a key that is not "slide" + digits
KeysAreNumbered(d) == \A i \in 1..Len(d) : IsDigits(SlideNum(d[i][1]))

Tab3Init ==
    /\ pc3 = "idle"
    /\ template_html = NoFile
    /\ output_data = NoFile
    /\ final_html = NoFile
    /\ ui3 = {}
    /\ unhandled3 = "none"

\* one run of the tab3 block (lines 406-447) with test.html as tpl and the
\* uploaded file as file.  Line 254 creates tab1 and tab2 only, so the
\* statement "with tab3:" of line 333 raises NameError in the script as it
\* stands; the block is modelled as it runs once tab3 is bound.
Tab3Run(tpl, file) ==
    /\ pc3 = "idle"
    /\ pc3' = "done"
    /\ template_html' = tpl
    /\ output_data' = file
    /\ unhandled3' = "none"
    /\ IF tpl.kind = "none"
       THEN /\ ui3' = {"error: test.html not found"}
            /\ final_html' = NoFile
       ELSE IF file.kind = "malformed"
       THEN /\ ui3' = {"error: exception"}
            /\ final_html' = NoFile
       ELSE IF Count(tpl.text, Placeholder) = 0
       THEN /\ ui3' = {"error: placeholder not found"}
            /\ final_html' = NoFile
       ELSE IF ~KeysAreNumbered(file.entries)
       THEN /\ ui3' = {"error: exception"}
            /\ final_html' = NoFile
       ELSE /\ ui3' = {"success", "download"}
            /\ final_html' = [kind |-> "html",
                              text |-> Replace(tpl.text, Placeholder,
                                               AllSlides(file.entries))]

(***************************************************************************)
(* Stage 1: the LLM responses and json.loads.                              *)
(*                                                                         *)
(* A response is prefix + body + suffix.  The body is one token: the text  *)
(* of a JSON document, or text that is no JSON.  Every JSON object text    *)
(* starts with "{" and ends with "}", so str.strip with the characters of  *)
(* the fence marker never removes part of it.                              *)
(***************************************************************************)
ResponseText(r) == r.prefix \o <<r.body>> \o r.suffix

\* the i-th {title, prompt} entry of an outline
OutlineEntry(i) ==
    <<<<"title", <<"Title">> \o Str(i)>>, <<"prompt", <<"Prompt">> \o Str(i)>>>>

\* JSON texts of outlines with 0, 1, 2, ... entries
OutlineJson ==
    <<"{\"slides\": []}",
      "{\"slides\": [e1]}",
      "{\"slides\": [e1, e2]}",
      "{\"slides\": [e1, e2, e3]}",
      "{\"slides\": [e1, e2, e3, e4]}">>

JsonObject(d) == [type |-> "object", fields |-> d]
JsonArray == [type |-> "array", fields |-> <<>>]
JsonError == [type |-> "error", fields |-> <<>>]

\* the value of a JSON text
JsonValueOf(tok) ==
    CASE tok = "{\"category\": \"Politics\", \"subcategory\": \"Elections\", \"emotion\": \"Concern\"}" ->
            JsonObject(<<<<"category", "Politics">>, <<"subcategory", "Elections">>,
                         <<"emotion", "Concern">>>>)
      [] tok = "{\"emotion\": \"Joy\", \"category\": \"Sports\", \"subcategory\": \"Cricket\", \"confidence\": 1}" ->
            JsonObject(<<<<"emotion", "Joy">>, <<"category", "Sports">>,
                         <<"subcategory", "Cricket">>, <<"confidence", "1">>>>)
      [] tok = "{\"category\": \"Politics\", \"subcategory\": \"Elections\"}" ->
            JsonObject(<<<<"category", "Politics">>, <<"subcategory", "Elections">>>>)
      [] tok = "{\"category\": \"Politics\", \"emotion\": \"Concern\"}" ->
            JsonObject(<<<<"category", "Politics">>, <<"emotion", "Concern">>>>)
      [] tok = "{\"subcategory\": \"Elections\", \"emotion\": \"Concern\"}" ->
            JsonObject(<<<<"subcategory", "Elections">>, <<"emotion", "Concern">>>>)
      [] tok = "{}" -> JsonObject(<<>>)
      [] tok = "[\"Politics\", \"Elections\", \"Concern\"]" -> JsonArray
      [] \E n \in 1..Len(OutlineJson) : tok = OutlineJson[n] ->
            LET n == CHOOSE m \in 1..Len(OutlineJson) : tok = OutlineJson[m]
            IN JsonObject(<<<<"slides", [i \in 1..(n - 1) |-> OutlineEntry(i)]>>>>)
      [] OTHER -> JsonError

\* json.loads(content): content is one JSON text, possibly between whitespace
JsonLoads(content) ==
    LET c == Strip(content)
    IN IF Len(c) = 1 THEN JsonValueOf(c[1]) ELSE JsonError

\* the backquote character, as a token
BackQuote == "<backquote>"

\* the characters of the first strip's argument: three backquotes and "json"
FenceChars == {BackQuote, "j", "s", "o", "n"}

\* content.strip(), then .strip(<fence>json).strip(<fence>).strip()
StripFences(content) ==
    Strip(StripChars(StripChars(Strip(content), FenceChars), {BackQuote}))

(***************************************************************************)
(* Stage 1: detect_category_and_subcategory and its caller in tab1.        *)
(***************************************************************************)
Fallback ==
    JsonObject(<<<<"category", "Unknown">>, <<"subcategory", "General">>,
                 <<"emotion", "Neutral">>>>)

\* lines 94-104, for the response r of the LLM
detect_category_and_subcategory(r) ==
    LET content == StripFences(ResponseText(r))
        parsed == JsonLoads(content)
    IN IF parsed.type = "error" THEN Fallback ELSE parsed

ClsInit ==
    /\ cls_pc = "idle"
    /\ cls_response = [prefix |-> <<>>, body |-> "", suffix |-> <<>>]
    /\ cls_result = JsonError

\* tab1, line 269: the classification call returns r
Classify(r) ==
    /\ cls_pc = "idle"
    /\ cls_pc' = "classified"
    /\ cls_response' = r
    /\ cls_result' = detect_category_and_subcategory(r)

\* tab1, line 270: result["category"], result["subcategory"],
\* result["emotion"]; a KeyError or TypeError reaches the except of line 303
Tab1Unpack ==
    /\ cls_pc = "classified"
    /\ cls_pc' = IF /\ cls_result.type = "object"
                    /\ {"category", "subcategory", "emotion"} \subseteq KeySet(cls_result.fields)
                 THEN "continued" ELSE "failed"
    /\ UNCHANGED <<cls_response, cls_result>>

(***************************************************************************)
(* Stage 1: title_script_generator.                                        *)
(***************************************************************************)
Greeting == "Namaskar doston, main hoon Rohan Sharma. Aaj ki badi khabar: "

\* article_text.split("\n")[0]
RECURSIVE FirstLine(_)
FirstLine(text) ==
    IF text = <<>> \/ Head(text) = "\n" THEN <<>>
    ELSE <<Head(text)>> \o FirstLine(Tail(text))

\* faulty variant of Headline: the quotes are kept
HeadlineKeepQuotes(text) == Strip(FirstLine(text))

\* headline = article_text.split("\n")[0].strip().replace('"', '')
Headline(text) == Replace(Strip(FirstLine(text)), "\"", <<>>)

\* headline[:80], counted in tokens
TitleMax == 80
Take(str, n) == SubSeq(str, 1, IF Len(str) < n THEN Len(str) ELSE n)

\* the intro slide, lines 149-157
IntroSlide(text) ==
    <<<<"title", Take(Headline(text), TitleMax)>>,
      <<"prompt", <<"Intro slide with greeting and headline.">>>>,
      <<"image_prompt",
        <<"Vector-style illustration of Rohan Sharma presenting news: ">> \o Headline(text)>>,
      <<"script", <<Greeting>> \o Headline(text)>>>>

\* the slide appended for one outline entry, lines 176-182
NarratedSlide(slide, narration_response) ==
    <<<<"title", Get(slide, "title")>>,
      <<"prompt", Get(slide, "prompt")>>,
      <<"image_prompt", <<"Modern vector-style visual for: ">> \o Get(slide, "title")>>,
      <<"script", Strip(narration_response)>>>>

GenInit ==
    /\ gen_pc = "idle"
    /\ article_text = <<>>
    /\ gen_response = [prefix |-> <<>>, body |-> "", suffix |-> <<>>]
    /\ slides_raw = <<>>
    /\ slides = <<>>
    /\ llm_calls = <<>>
    /\ narrations = <<>>

\* lines 133-157: the outline call returns r; its content is parsed; on any
\* exception the function returns an empty slide list, else the intro slide
\* is built
GenOutline(text, r) ==
    /\ gen_pc = "idle"
    /\ article_text' = text
    /\ gen_response' = r
    /\ llm_calls' = Append(llm_calls, [kind |-> "outline", prompt |-> <<>>])
    /\ LET parsed == JsonLoads(StripFences(ResponseText(r)))
       IN IF parsed.type = "object" /\ HasKey(parsed.fields, "slides")
          THEN /\ slides_raw' = Get(parsed.fields, "slides")
               /\ slides' = <<IntroSlide(text)>>
               /\ gen_pc' = "narrating"
          ELSE /\ slides_raw' = <<>>
               /\ slides' = <<>>
               /\ gen_pc' = "returned"
    /\ UNCHANGED narrations

\* one iteration of the loop of lines 159-182: the narration call returns
\* narration_response
Narrate(narration_response) ==
    /\ gen_pc = "narrating"
    /\ Len(slides) <= Len(slides_raw)
    /\ LET slide == slides_raw[Len(slides)]
       IN /\ llm_calls' = Append(llm_calls,
                                 [kind |-> "narration", prompt |-> Get(slide, "prompt")])
          /\ slides' = Append(slides, NarratedSlide(slide, narration_response))
    /\ narrations' = Append(narrations, narration_response)
    /\ UNCHANGED <<gen_pc, article_text, gen_response, slides_raw>>

\* the narration call raises: the exception leaves title_script_generator
NarrateFail ==
    /\ gen_pc = "narrating"
    /\ Len(slides) <= Len(slides_raw)
    /\ llm_calls' = Append(llm_calls,
                           [kind |-> "narration",
                            prompt |-> Get(slides_raw[Len(slides)], "prompt")])
    /\ gen_pc' = "failed"
    /\ UNCHANGED <<article_text, gen_response, slides_raw, slides, narrations>>

\* the loop is exhausted: lines 184-189
GenReturn ==
    /\ gen_pc = "narrating"
    /\ Len(slides) > Len(slides_raw)
    /\ gen_pc' = "returned"
    /\ UNCHANGED <<article_text, gen_response, slides_raw, slides, llm_calls, narrations>>

(***************************************************************************)
(* Inputs.                                                                 *)
(***************************************************************************)
\* the key names of the two interchange formats
SlideKey(n) == <<"slide">> \o Str(n)
ParagraphKey(n) == <<"s">> \o Str(n) \o <<"paragraph1">>
AudioKey(n) == <<"audio_url">> \o Str(n)

FenceJson == <<BackQuote, BackQuote, BackQuote, "j", "s", "o", "n", "\n">>
FencePlain == <<BackQuote, BackQuote, BackQuote, "\n">>
FenceClose == <<"\n", BackQuote, BackQuote, BackQuote>>

ClsBodies ==
    {"{\"category\": \"Politics\", \"subcategory\": \"Elections\", \"emotion\": \"Concern\"}",
     "{\"emotion\": \"Joy\", \"category\": \"Sports\", \"subcategory\": \"Cricket\", \"confidence\": 1}",
     "{\"category\": \"Politics\", \"subcategory\": \"Elections\"}",
     "{\"category\": \"Politics\", \"emotion\": \"Concern\"}",
     "{\"subcategory\": \"Elections\", \"emotion\": \"Concern\"}",
     "{}",
     "[\"Politics\", \"Elections\", \"Concern\"]",
     "{\"category\": \"Politics\", ",
     "I cannot classify this article."}

ClsResponses ==
    [prefix : {<<>>, FenceJson, FencePlain, <<" ">>, <<"Here is the JSON:", "\n">>},
     body : ClsBodies,
     suffix : {<<>>, FenceClose, <<"\n">>, <<"\n", "Hope this helps.">>}]

OutlineBodies ==
    {OutlineJson[n + 1] : n \in 0..MaxOutline}
    \cup {"{}", "[\"Politics\", \"Elections\", \"Concern\"]", "Here are five slides."}

OutlineResponses ==
    [prefix : {<<>>, FenceJson, <<"Sure:", "\n">>},
     body : OutlineBodies,
     suffix : {<<>>, FenceClose}]

FirstLines ==
    {<<"Line1">>, <<" ", "Line1", " ">>, <<"\"", "Quoted", "\"", " ", "headline">>,
     <<"\"", " ", "Inner", "\"">>, <<>>}

Articles == {fl \o rest : fl \in FirstLines, rest \in {<<>>, <<"\n", "Line2">>}}

NarrationResponses == {<<"Narration A">>, <<"\n", "Narration B", " ">>}

\* mappings of at most n entries with distinct keys from ks and values from vs
Mappings(ks, vs, n) ==
    UNION {{m \in [1..len -> ks \X vs] :
                \A i, j \in 1..len : i # j => m[i][1] # m[j][1]} : len \in 0..n}

ParagraphTexts == {<<"Namaskar">>, <<"khabar">>}

\* the uploaded StructuredNarration files: keys s1paragraph1.. and one key
\* of another name
TtsFiles ==
    {Malformed}
    \cup {JsonFile(m) :
            m \in Mappings({ParagraphKey(i) : i \in 1..MaxParas} \cup {<<"intro">>},
                           ParagraphTexts, MaxParas)}

\* slide lists sent through all three stages
StoryScripts == {<<"a">>, <<" ", "b", "\"", "\n">>, <<RightQuote, "c">>}

Stories ==
    UNION {[1..k -> {<<<<"title", <<"t">>>>, <<"script", sc>>>> : sc \in StoryScripts}]
             : k \in 0..MaxStory}

Html(text) == [kind |-> "html", text |-> text]

PipelineTemplate == Html(<<"<html>", Placeholder, "</html>">>)

Templates ==
    {NoFile,
     Html(<<"<html>", "</html>">>),
     PipelineTemplate,
     Html(<<"<html>", PageTag, " id=cover>", "</amp-story-page>", Placeholder, "</html>">>),
     Html(<<Placeholder, "<hr>", Placeholder>>)}

AmpTexts == {<<"a">>, <<"b", "\"", RightQuote>>, <<PageTag>>, <<Placeholder>>}
AmpUrls == {<<"https://cdn/u1.mp3">>, <<"https://cdn/u2.mp3">>}
AmpNums == {2, 3, 10}

\* the entries a TTSResult-shaped file may hold under slide{n}
AmpEntries(n) ==
    {<<<<ParagraphKey(n), t>>, <<AudioKey(n), u>>, <<VoiceKey, "alloy">>>> :
        t \in AmpTexts, u \in AmpUrls}
    \cup {<<<<ParagraphKey(n), <<"a">>>>, <<VoiceKey, "alloy">>>>,
          <<<<AudioKey(n), <<"https://cdn/u1.mp3">>>>, <<VoiceKey, "alloy">>>>,
          <<<<ParagraphKey(n + 1), <<"a">>>>, <<AudioKey(n), <<"https://cdn/u1.mp3">>>>>>}

AmpMappings ==
    UNION {{m \in [1..len -> UNION {{<<SlideKey(n), e>> : e \in AmpEntries(n)} : n \in AmpNums}] :
                \A i, j \in 1..len : i # j => m[i][1] # m[j][1]} : len \in 0..MaxAmpSlides}

AmpFiles ==
    {Malformed, JsonFile(<<<<<<"cover">>, <<>>>>>>)} \cup {JsonFile(m) : m \in AmpMappings}

(***************************************************************************)
(* Specifications.                                                         *)
(***************************************************************************)
Init == ClsInit /\ GenInit /\ Tab1Init /\ Tab2Init /\ Tab3Init

\* the classifier and its caller
NextClassifier ==
    \/ /\ cls_pc = "idle"
       /\ \E r \in ClsResponses : Classify(r)
       /\ UNCHANGED <<gen_vars, tab1_vars, tab2_vars, tab3_vars>>
    \/ Tab1Unpack /\ UNCHANGED <<gen_vars, tab1_vars, tab2_vars, tab3_vars>>

SpecClassifier == Init /\ [][NextClassifier]_vars

\* title_script_generator
NextScript ==
    \/ /\ gen_pc = "idle"
       /\ \E text \in Articles, r \in OutlineResponses : GenOutline(text, r)
       /\ UNCHANGED <<cls_vars, tab1_vars, tab2_vars, tab3_vars>>
    \/ /\ \E n \in NarrationResponses : Narrate(n)
       /\ UNCHANGED <<cls_vars, tab1_vars, tab2_vars, tab3_vars>>
    \/ NarrateFail /\ UNCHANGED <<cls_vars, tab1_vars, tab2_vars, tab3_vars>>
    \/ GenReturn /\ UNCHANGED <<cls_vars, tab1_vars, tab2_vars, tab3_vars>>

SpecScript == Init /\ [][NextScript]_vars

\* tab2 on any uploaded file
NextTts ==
    \/ /\ pc2 = "await_upload"
       /\ \E file \in TtsFiles, v \in voice_options : Tab2Upload(file, v)
       /\ UNCHANGED <<cls_vars, gen_vars, tab1_vars, tab3_vars>>
    \/ Tab2Click /\ UNCHANGED <<cls_vars, gen_vars, tab1_vars, tab3_vars>>
    \/ /\ \E ok \in BOOLEAN : TtsPost(ok)
       /\ UNCHANGED <<cls_vars, gen_vars, tab1_vars, tab3_vars>>
    \/ /\ \E outcome \in {"ok", "open_fails", "write_fails"} : WriteTemp(outcome)
       /\ UNCHANGED <<cls_vars, gen_vars, tab1_vars, tab3_vars>>
    \/ /\ \E ok \in BOOLEAN : Upload(ok)
       /\ UNCHANGED <<cls_vars, gen_vars, tab1_vars, tab3_vars>>
    \/ Tab2Return /\ UNCHANGED <<cls_vars, gen_vars, tab1_vars, tab3_vars>>

SpecTts == Init /\ [][NextTts]_vars

\* tab3 on any template and any uploaded file
NextAmp ==
    /\ pc3 = "idle"
    /\ \E tpl \in Templates, file \in AmpFiles : Tab3Run(tpl, file)
    /\ UNCHANGED <<cls_vars, gen_vars, tab1_vars, tab2_vars>>

SpecAmp == Init /\ [][NextAmp]_vars

\* the three stages in sequence: each stage is given the file the stage
\* before it wrote
Next ==
    \/ /\ structured_file = NoFile
       /\ \E slide_list \in Stories : Tab1Restructure(slide_list)
       /\ UNCHANGED <<cls_vars, gen_vars, tab2_vars, tab3_vars>>
    \/ /\ structured_file # NoFile
       /\ \E v \in voice_options : Tab2Upload(structured_file, v)
       /\ UNCHANGED <<cls_vars, gen_vars, tab1_vars, tab3_vars>>
    \/ Tab2Click /\ UNCHANGED <<cls_vars, gen_vars, tab1_vars, tab3_vars>>
    \/ /\ \E ok \in BOOLEAN : TtsPost(ok)
       /\ UNCHANGED <<cls_vars, gen_vars, tab1_vars, tab3_vars>>
    \/ /\ \E outcome \in {"ok", "open_fails", "write_fails"} : WriteTemp(outcome)
       /\ UNCHANGED <<cls_vars, gen_vars, tab1_vars, tab3_vars>>
    \/ /\ \E ok \in BOOLEAN : Upload(ok)
       /\ UNCHANGED <<cls_vars, gen_vars, tab1_vars, tab3_vars>>
    \/ Tab2Return /\ UNCHANGED <<cls_vars, gen_vars, tab1_vars, tab3_vars>>
    \/ /\ tts_output_file # NoFile
       /\ Tab3Run(PipelineTemplate, tts_output_file)
       /\ UNCHANGED <<cls_vars, gen_vars, tab1_vars, tab2_vars>>

Spec == Init /\ [][Next]_vars

(***************************************************************************)
(* Properties of stage 2 (synthesize_and_upload), under SpecTts.           *)
(***************************************************************************)

\* C1: when every TTS and upload call succeeds, the returned mapping has
\* exactly the keys slide2 .. slide(n+1), in the iteration order of the n
\* input paragraphs whatever their keys, and slide{i} holds exactly
\* s{i}paragraph1 (the text of paragraph i-1), audio_url{i} and voice (the
\* selected voice).
C1_OutputNumbering ==
    pc2 = "done" =>
        /\ Len(result) = Len(paragraphs)
        /\ \A n \in 1..Len(paragraphs) :
              LET entry == result[n][2]
              IN /\ result[n][1] = SlideKey(n + 1)
                 /\ Len(entry) = 3
                 /\ KeySet(entry) = {ParagraphKey(n + 1), AudioKey(n + 1), VoiceKey}
                 /\ Get(entry, ParagraphKey(n + 1)) = paragraphs[n][2]
                 /\ Get(entry, VoiceKey) = voice

C1_Witness ==
    /\ pc2 = "done"
    /\ Len(paragraphs) >= 2
    /\ paragraphs[1][1] = <<"intro">>
    /\ Len(result) >= 2

\* C3: when the TTS call or the upload fails at the k-th paragraph, no call
\* is issued for a later paragraph, no call is repeated, no TTSResult file is
\* written or offered, and nothing of paragraphs 1..k-1 remains: no object
\* in the bucket.
C3_AbortLeavesNothing ==
    pc2 = "aborted" =>
        /\ Len(tts_calls) = pos
        /\ Len(upload_calls) <= pos
        /\ \A i \in 1..Len(upload_calls) : upload_calls[i] = i
        /\ tts_output_file = NoFile
        /\ "download" \notin ui2
        /\ bucket = {}

\* the part of C3 that the code keeps: the batch stops at the failed call,
\* nothing is retried and no TTSResult file is written or offered
AbortStopsBatch ==
    pc2 = "aborted" =>
        /\ Len(tts_calls) = pos
        /\ Len(upload_calls) <= pos
        /\ \A i \in 1..Len(upload_calls) : upload_calls[i] = i
        /\ tts_output_file = NoFile
        /\ "download" \notin ui2

\* C6: at the start of every iteration and whenever a run has ended, by
\* returning or by aborting, no temp audio file of the run exists.
C6_TempFileScoped ==
    pc2 \in {"loop_top", "done", "aborted"} => temp_dir = {}

\* C8: a user-input failure (an uploaded file that is not well-formed JSON,
\* a missing template, a template without the placeholder) ends the run of
\* its stage with an error message shown, no artifact offered and no
\* unhandled exception.
C8_InputFailuresReported ==
    /\ (pc2 # "await_upload" /\ uploaded_file = Malformed) =>
          /\ unhandled2 = "none"
          /\ "download" \notin ui2
          /\ tts_output_file = NoFile
    /\ (/\ pc3 = "done"
        /\ \/ template_html = NoFile
           \/ output_data = Malformed
           \/ Count(template_html.text, Placeholder) = 0) =>
          /\ unhandled3 = "none"
          /\ \E m \in ui3 : m \in {"error: test.html not found", "error: exception",
                                   "error: placeholder not found"}
          /\ "download" \notin ui3
          /\ final_html = NoFile

\* the part of C8 that the code keeps: tab3 reports each of its input
\* failures and offers nothing (checked under SpecAmp)
Tab3InputFailuresReported ==
    (/\ pc3 = "done"
     /\ \/ template_html = NoFile
        \/ output_data = Malformed
        \/ Count(template_html.text, Placeholder) = 0) =>
       /\ unhandled3 = "none"
       /\ \E m \in ui3 : m \in {"error: test.html not found", "error: exception",
                                "error: placeholder not found"}
       /\ "download" \notin ui3
       /\ final_html = NoFile

\* the uploaded mapping is what restructure_slide_output writes: keys
\* s1paragraph1 .. s{k}paragraph1 in this order, k >= 1, and the intro text
\* differs from the other texts
IsStructuredNarration ==
    /\ Len(paragraphs) >= 1
    /\ \A n \in 1..Len(paragraphs) : paragraphs[n][1] = ParagraphKey(n)
    /\ \A n \in 2..Len(paragraphs) : paragraphs[n][2] # paragraphs[1][2]

\* C9: given a StructuredNarration, the value of s1paragraph1 is never sent
\* to the TTS endpoint and no entry of the result carries it.
C9_IntroNeverSynthesized ==
    (IsStructuredNarration /\ pc2 \notin {"await_upload", "await_click", "crashed"}) =>
        /\ \A i \in 1..Len(tts_calls) : tts_calls[i].input # paragraphs[1][2]
        /\ \A i \in 1..Len(result) :
              \A f \in 1..Len(result[i][2]) : result[i][2][f][2] # paragraphs[1][2]

\* C9 as amended: given a StructuredNarration, every paragraph is sent to
\* the TTS endpoint in order, s1paragraph1 first, and the intro's text and
\* the URL of its audio are in the result under slide2, as s2paragraph1 and
\* audio_url2.
C9_IntroSynthesizedAsSlide2 ==
    (IsStructuredNarration /\ pc2 = "done") =>
        /\ Len(tts_calls) = Len(paragraphs)
        /\ \A n \in 1..Len(paragraphs) : tts_calls[n].input = paragraphs[n][2]
        /\ HasKey(result, SlideKey(2))
        /\ LET entry == Get(result, SlideKey(2))
           IN /\ HasKey(entry, ParagraphKey(2))
              /\ Get(entry, ParagraphKey(2)) = paragraphs[1][2]
              /\ HasKey(entry, AudioKey(2))
              /\ \E o \in bucket :
                    /\ o[2] = TtsAudio(paragraphs[1][2], voice)
                    /\ Get(entry, AudioKey(2)) = CdnUrl(o[1])

C9_Witness ==
    /\ IsStructuredNarration
    /\ pc2 = "done"
    /\ Len(paragraphs) >= 2
    /\ Len(result) = Len(paragraphs)

(***************************************************************************)
(* Properties of stage 3 (the AMP assembly), under SpecAmp.                *)
(***************************************************************************)
Min(S) == CHOOSE x \in S : \A y \in S : x <= y
Max(S) == CHOOSE x \in S : \A y \in S : x >= y

\* the entry slide{n} of d carries both of its fields
IsComplete(d, n) ==
    /\ HasKey(d, SlideKey(n))
    /\ HasKey(Get(d, SlideKey(n)), ParagraphKey(n))
    /\ HasKey(Get(d, SlideKey(n)), AudioKey(n))

\* the numbers n of the keys slide{n} of d
SlideNumbers(d) == {n \in 0..(Len(d) + Max(AmpNums)) : HasKey(d, SlideKey(n))}

\* quote normalisation, character by character
Normalised(p) ==
    [i \in 1..Len(p) |->
        IF p[i] = RightQuote THEN "'" ELSE IF p[i] = "\"" THEN "&quot;" ELSE p[i]]

\* the fragments of the complete entries among the numbers nums, in
\* ascending order of the number
RECURSIVE AscendingFragments(_, _)
AscendingFragments(d, nums) ==
    IF nums = {} THEN <<>>
    ELSE LET n == Min(nums)
             data == Get(d, SlideKey(n))
         IN (IF IsComplete(d, n)
             THEN generate_slide(Normalised(Get(data, ParagraphKey(n))),
                                 Get(data, AudioKey(n)))
             ELSE <<>>)
            \o AscendingFragments(d, nums \ {n})

Assembled == pc3 = "done" /\ "success" \in ui3

CompleteCount(d) == Cardinality({n \in SlideNumbers(d) : IsComplete(d, n)})

CleanInputs ==
    /\ Count(template_html.text, Placeholder) = 1
    /\ Count(template_html.text, PageTag) = 0
    /\ \A i \in 1..Len(output_data.entries) :
          \A f \in 1..Len(output_data.entries[i][2]) :
              LET v == output_data.entries[i][2][f][2]
              IN output_data.entries[i][2][f][1] # VoiceKey =>
                    (Count(v, PageTag) = 0 /\ Count(v, Placeholder) = 0)

IsJsonResponse(r) ==
    /\ r.prefix \in {<<>>, FenceJson, FencePlain, <<" ">>}
    /\ r.suffix \in {<<>>, FenceClose, <<"\n">>}
    /\ JsonValueOf(r.body).type # "error"

\* the response is a JSON object with the three fields
HasThreeFields(r) ==
    /\ IsJsonResponse(r)
    /\ JsonValueOf(r.body).type = "object"
    /\ {"category", "subcategory", "emotion"} \subseteq KeySet(JsonValueOf(r.body).fields)

\* C4: a response that is a JSON object with category, subcategory and
\* emotion is returned unchanged; every other response gives the fallback
\* {Unknown, General, Neutral}; and stage 1 continues in both cases.
C4_ClassifierContract ==
    cls_pc # "idle" =>
        /\ IF HasThreeFields(cls_response)
           THEN cls_result = JsonValueOf(cls_response.body)
           ELSE cls_result = Fallback
        /\ cls_pc # "failed"

\* the part of C4 that the code keeps: an object with the three fields is
\* returned unchanged, and a response that is no JSON gives the fallback
ClassifierParsesOrFallsBack ==
    cls_pc # "idle" =>
        /\ HasThreeFields(cls_response) =>
              (cls_result = JsonValueOf(cls_response.body) /\ cls_pc # "failed")
        /\ ~IsJsonResponse(cls_response) =>
              (cls_result = Fallback /\ cls_pc # "failed")

(***************************************************************************)
(* Properties of title_script_generator, under SpecScript.                 *)
(***************************************************************************)
\* the outline response is the JSON text of an outline, bare or fenced
ParsesAsOutline(r) ==
    /\ r.prefix \in {<<>>, FenceJson}
    /\ r.suffix \in {<<>>, FenceClose}
    /\ \E n \in 1..Len(OutlineJson) : r.body = OutlineJson[n]

\* the number of its entries
OutlineLen(r) == (CHOOSE n \in 1..Len(OutlineJson) : r.body = OutlineJson[n]) - 1

\* the text before the first line break
LineOne(text) ==
    LET breaks == {i \in 1..Len(text) : text[i] = "\n"}
    IN IF breaks = {} THEN text ELSE SubSeq(text, 1, Min(breaks) - 1)

\* a text without its leading and trailing whitespace
Trimmed(str) ==
    LET inked == {i \in 1..Len(str) : str[i] \notin Whitespace}
    IN IF inked = {} THEN <<>> ELSE SubSeq(str, Min(inked), Max(inked))

IsNotQuote(c) == c # "\""

WithoutQuotes(str) == SelectSeq(str, IsNotQuote)

\* the slide list of a returned call, with the first line and the narrations
\* taken as given (trim = FALSE) or without surrounding whitespace (TRUE)
SlidesFollowOutline(trim) ==
    IF ParsesAsOutline(gen_response)
    THEN LET N == OutlineLen(gen_response)
             line == IF trim THEN Trimmed(LineOne(article_text)) ELSE LineOne(article_text)
         IN /\ Len(slides) = N + 1
            /\ Get(slides[1], "script") = <<Greeting>> \o WithoutQuotes(line)
            /\ Len(narrations) = N
            /\ Len(llm_calls) = N + 1
            /\ llm_calls[1].kind = "outline"
            /\ \A i \in 1..N :
                  /\ llm_calls[i + 1] = [kind |-> "narration",
                                         prompt |-> Get(OutlineEntry(i), "prompt")]
                  /\ Get(slides[i + 1], "title") = Get(OutlineEntry(i), "title")
                  /\ Get(slides[i + 1], "prompt") = Get(OutlineEntry(i), "prompt")
                  /\ Get(slides[i + 1], "script") =
                        (IF trim THEN Trimmed(narrations[i]) ELSE narrations[i])
    ELSE /\ slides = <<>>
         /\ Len(llm_calls) = 1
         /\ llm_calls[1].kind = "outline"

\* C5: an outline of N entries gives N+1 slides: the intro, whose script is
\* the greeting followed by the article's first line with double quotes
\* removed, made without an LLM call, then one slide per entry in order with
\* the entry's title and prompt and the narration its one call returned; an
\* outline response that cannot be parsed gives no slide and no narration
\* call.
C5_SlidesFollowOutline ==
    gen_pc = "returned" => SlidesFollowOutline(FALSE)

\* C5 as amended: the same, with the first line stripped of its leading and
\* trailing whitespace before its quotes are removed, and each narration
\* stripped of its leading and trailing whitespace.
C5_SlidesFollowOutlineTrimmed ==
    gen_pc = "returned" => SlidesFollowOutline(TRUE)

C5_Witness ==
    /\ gen_pc = "returned"
    /\ ParsesAsOutline(gen_response)
    /\ OutlineLen(gen_response) = 2
    /\ Len(slides) = 3
    /\ Count(article_text, "\"") > 0
    /\ narrations[1] # narrations[2]

====
